---- MODULE Spec2Model ----
(***************************************************************************)
(* Helideck solar collector dashboard (Streamlit): the Main page, the      *)
(* Cost-saving page, the Heat-loss-components page and the Climate Data    *)
(* Viewer, with the heat-loss model compute_heat_losses they call.         *)
(*                                                                         *)
(* Numbers are fixed point.  Energies are in Wh (0.001 kWh), so the floor  *)
(* 0.001 of the Main page is 1.  Temperatures are in milli-degrees C, wind *)
(* in mm/s, relative humidity in 0.01 % (100 % = 10000), irradiance in     *)
(* Wh/m2/day, areas in m2 (the collector area in 0.01 m2), COP in tenths,  *)
(* the diesel price in cents.  Table values shown to the user are rounded  *)
(* to one decimal of a kWh, that is to units of 100 Wh.                    *)
(***************************************************************************)
EXTENDS Integers, Sequences, FiniteSets, TLC

VARIABLES
    cache,            \* the table st.cache_data holds for load_data()
    df,               \* the table the last script run got from load_data()
    coords_by_month,  \* st.session_state.coords_by_month
    clicks,           \* number of map clicks processed so far
    view,             \* what the last script run computed and showed
    calc              \* one evaluation of the formulas on scalar inputs

vars == <<cache, df, coords_by_month, clicks, view, calc>>

(***************************************************************************)
(* Bounds of the model.                                                    *)
(***************************************************************************)
MaxClicks == 2     \* map clicks processed in one session
MaxSel == 2        \* months in the partial multi-month selection

(***************************************************************************)
(* Arithmetic helpers.                                                     *)
(***************************************************************************)
Max(a, b) == IF a >= b THEN a ELSE b
Min(a, b) == IF a <= b THEN a ELSE b
Abs(a) == IF a >= 0 THEN a ELSE -a

\* Division rounding toward minus infinity is \div; DivT truncates toward 0,
\* so that a quantity and its negation scale symmetrically.
DivT(a, b) == IF a >= 0 THEN a \div b ELSE -((-a) \div b)

\* round(x, 1) of a kWh value x held in Wh: the nearest multiple of 100 Wh,
\* ties to the even multiple; the result is in units of 0.1 kWh.
Round1(w) ==
    LET q == w \div 100
        r == w % 100
    IN  IF r < 50 THEN q
        ELSE IF r > 50 THEN q + 1
        ELSE IF q % 2 = 0 THEN q ELSE q + 1

(***************************************************************************)
(* Month names, as the pages spell them.                                   *)
(***************************************************************************)
months_ordered ==
    << <<"J","a","n","u","a","r","y">>,
       <<"F","e","b","r","u","a","r","y">>,
       <<"M","a","r","c","h">>,
       <<"A","p","r","i","l">>,
       <<"M","a","y">>,
       <<"J","u","n","e">>,
       <<"J","u","l","y">>,
       <<"A","u","g","u","s","t">>,
       <<"S","e","p","t","e","m","b","e","r">>,
       <<"O","c","t","o","b","e","r">>,
       <<"N","o","v","e","m","b","e","r">>,
       <<"D","e","c","e","m","b","e","r">>
    >>

Months == {months_ordered[i] : i \in 1..Len(months_ordered)}

MonthIndex(month) == CHOOSE i \in 1..Len(months_ordered) : months_ordered[i] = month

\* str.lower() on one character.
LowerChar(c) ==
    CASE c = "J" -> "j" [] c = "F" -> "f" [] c = "M" -> "m" [] c = "A" -> "a"
      [] c = "S" -> "s" [] c = "O" -> "o" [] c = "N" -> "n" [] c = "D" -> "d"
      [] OTHER -> c

\* month[:3].lower()
ShortTwo(month) == [i \in 1..Min(2, Len(month)) |-> LowerChar(month[i])]
Short(month) == [i \in 1..Min(3, Len(month)) |-> LowerChar(month[i])]

short_months == [i \in 1..Len(months_ordered) |-> Short(months_ordered[i])]

days_in_month(month) ==
    LET i == MonthIndex(month)
    IN  IF i = 2 THEN 28
        ELSE IF i \in {4, 6, 9, 11} THEN 30
        ELSE 31

(***************************************************************************)
(* heat_loss_utils.compute_heat_losses.  The module is imported by the     *)
(* three pages and is not among the source files; it is written here from  *)
(* its description: section 4.1 (algorithm, error conditions) and section  *)
(* 6 (signature and result).  Rates are in mW, Q_day and Q_night in Wh.    *)
(***************************************************************************)
\* Saturation vapour pressure over water (Magnus form), Pa, for -40..50 C.
SatVapTable ==
    << 18, 20, 23, 25, 28, 31, 34, 38, 41, 46, 50, 55, 61, 67, 73, 80, 87, 96,
       105, 114, 125, 136, 148, 161, 175, 190, 207, 224, 243, 264, 286, 309,
       334, 361, 390, 421, 454, 490, 527, 568, 611, 657, 706, 758, 813, 872,
       935, 1002, 1073, 1148, 1228, 1313, 1403, 1498, 1599, 1705, 1818, 1938,
       2064, 2197, 2338, 2487, 2644, 2809, 2984, 3168, 3361, 3565, 3780, 4006,
       4243, 4493, 4755, 5030, 5319, 5623, 5941, 6275, 6625, 6991, 7376, 7778,
       8199, 8640, 9101, 9582, 10086, 10613, 11163, 11737, 12337 >>

\* Saturation vapour pressure (Pa) at T milli-degrees C, interpolated.
SatVapPressure(T) ==
    LET Tc == Max(-40000, Min(49999, T))
        i  == Tc \div 1000
        f  == Tc - 1000 * i
        lo == SatVapTable[i + 41]
        hi == SatVapTable[i + 42]
    IN  lo + ((hi - lo) * f) \div 1000

\* Radiative flux, mW/m2: emissivity 0.95 times the Stefan-Boltzmann constant
\* times (Tpool^4 - Tair^4), absolute temperatures.
RadFlux(target_temp, T_air) ==
    LET a     == target_temp * 1000 + 273150
        b     == T_air + 273150
        aK    == a \div 1000
        bK    == b \div 1000
        cubic == ((aK + bK) * (aK * aK + bK * bK)) \div 1000
        u     == DivT(DivT(a - b, 10) * cubic, 1000)
    IN  DivT(u * 539, 1000)

\* Evaporative flux, mW/m2: a mass-transfer coefficient linear in the wind
\* speed times the vapour-pressure deficit.
EvapFlux(target_temp, T_air, wind, rh) ==
    LET c       == 89000 + (782 * wind) \div 10
        deficit == SatVapPressure(target_temp * 1000)
                     - (SatVapPressure(T_air) * rh) \div 10000
    IN  DivT((c \div 100) * deficit, 10)

\* Convective flux, mW/m2: a wind-enhanced heat-transfer coefficient times
\* the pool-to-air temperature difference.
ConvFlux(target_temp, T_air, wind) ==
    LET h == 3100 + (41 * wind) \div 10
    IN  DivT(h * DivT(target_temp * 1000 - T_air, 10), 100)

\* What the night cover leaves of each night-time loss, in percent: the
\* cover attenuates radiation and convection and suppresses evaporation to
\* a small residual.
CoverRadPct == 50
CoverEvapPct == 5
CoverConvPct == 50

\* pct percent of a rate, without overflowing on rate * pct.
ScalePct(rate, pct) ==
    LET m == Abs(rate)
        v == (m \div 100) * pct + ((m % 100) * pct) \div 100
    IN  IF rate >= 0 THEN v ELSE -v

CoveredIgnored(rate, pct, cover_used) == rate
Covered(rate, pct, cover_used) == IF cover_used THEN ScalePct(rate, pct) ELSE rate

\* A rate in mW over a number of hours, in Wh.
Integrate(rate, hours) == DivT(DivT(rate, 10) * hours, 100)

InvalidParameterNever(area, depth, rh_day, rh_night, night_hours) == FALSE
InvalidParameter(area, depth, rh_day, rh_night, night_hours) ==
    \/ area <= 0
    \/ depth <= 0
    \/ rh_day < 0 \/ rh_day > 10000
    \/ rh_night < 0 \/ rh_night > 10000
    \/ night_hours <= 0 \/ night_hours >= 24

compute_heat_losses(target_temp, area, depth, T_day, T_night, wind_day, wind_night, rh_day, rh_night, night_hours, cover_used) ==
    IF InvalidParameter(area, depth, rh_day, rh_night, night_hours)
    THEN [error |-> "InvalidParameter"]
    ELSE
      LET rad_day    == area * RadFlux(target_temp, T_day)
          evap_day   == area * EvapFlux(target_temp, T_day, wind_day, rh_day)
          conv_day   == area * ConvFlux(target_temp, T_day, wind_day)
          rad_night  == Covered(area * RadFlux(target_temp, T_night),
                                CoverRadPct, cover_used)
          evap_night == Covered(area * EvapFlux(target_temp, T_night, wind_night, rh_night),
                                CoverEvapPct, cover_used)
          conv_night == Covered(area * ConvFlux(target_temp, T_night, wind_night),
                                CoverConvPct, cover_used)
      IN  [ error      |-> "none",
            rad_day    |-> rad_day,
            rad_night  |-> rad_night,
            evap_day   |-> evap_day,
            evap_night |-> evap_night,
            conv_day   |-> conv_day,
            conv_night |-> conv_night,
            Q_day      |-> Integrate(rad_day + evap_day + conv_day, 24 - night_hours),
            Q_night    |-> Integrate(rad_night + evap_night + conv_night, night_hours) ]

(***************************************************************************)
(* The climate table climate_data_sea.csv: one row per grid point, the     *)
(* columns lat, lon and <metric>_<Month>.  The twelve monthly columns of   *)
(* a metric are kept together under the metric's name, so a table is the   *)
(* set of names lat, lon, <metric> and its rows, each giving lat, lon and, *)
(* per metric, the values of January .. December.                          *)
(***************************************************************************)
Metrics == {"ghi", "tmin", "tmax", "tavg", "rh", "ws10m", "tdew", "ps"}

GridPoints ==
    << [lat |-> -70, lon |-> 0],      \* Antarctic band
       [lat |-> 65,  lon |-> -40],    \* Greenland band
       [lat |-> 25,  lon |-> -30],    \* subtropical Atlantic
       [lat |-> 55,  lon |-> 5] >>    \* North Sea

\* 0 in the cold season of the row's hemisphere, 2 in the warm one.
Warmth(i, month) ==
    LET k == MonthIndex(month)
        n == IF k \in {12, 1, 2} THEN 0 ELSE IF k \in {6, 7, 8} THEN 2 ELSE 1
    IN  IF GridPoints[i].lat < 0 THEN 2 - n ELSE n

ClimateValue(i, metric, month) ==
    LET w    == Warmth(i, month)
        tmin == CASE i = 1 -> -20000 + 6000 * w
                  [] i = 2 -> -15000 + 8000 * w
                  [] i = 3 -> 17000 + 4500 * w
                  [] OTHER -> 2000 + 5000 * w
        tmax == tmin + (IF i = 2 THEN 6000 ELSE 5000)
    IN  CASE metric = "tmin"  -> tmin
          [] metric = "tmax"  -> tmax
          [] metric = "tavg"  -> (tmin + tmax) \div 2 + 400
          [] metric = "ghi"   -> (CASE i = 1 -> 200 + 1400 * w
                                    [] i = 2 -> 400 + 2000 * w
                                    [] i = 3 -> 3000 + 1700 * w
                                    [] OTHER -> 600 + 2200 * w)
          [] metric = "ws10m" -> (CASE i = 1 -> 9000 [] i = 2 -> 8000
                                    [] i = 3 -> 5000 [] OTHER -> 8000)
          [] metric = "rh"    -> (CASE i = 1 -> 7000 [] i = 2 -> 7500
                                    [] i = 3 -> 8000 [] OTHER -> 8500)
          [] metric = "tdew"  -> tmin - 2000
          [] OTHER            -> 101000 - 500 * i

\* f"{metric}_{month}": the metric and the month's number stand for the name.
Col(metric, month) == <<metric, MonthIndex(month)>>

\* The table keeps the twelve columns <metric>_January .. <metric>_December of
\* a metric together, as one entry of twelve values under the metric's name:
\* "<metric>_<month>" in df.columns, and row["<metric>_<month>"].
HasCol(table, column) == column[1] \in table.cols
Cell(row, column) == row[column[1]][column[2]]

\* pd.read_csv("climate_data_sea.csv"), with or without the tavg_* columns.
read_csv(hasTavg) ==
    LET metrics == IF hasTavg THEN Metrics ELSE Metrics \ {"tavg"}
        cols    == {"lat", "lon"} \cup metrics
    IN  [ cols |-> cols,
          rows |-> [i \in 1..Len(GridPoints) |->
                      [c \in cols |->
                         IF c = "lat" THEN GridPoints[i].lat
                         ELSE IF c = "lon" THEN GridPoints[i].lon
                         ELSE [k \in 1..Len(months_ordered) |->
                                 ClimateValue(i, c, months_ordered[k])]]] ]

\* @st.cache_data load_data(): the caller gets its own copy of the cached
\* table, so what a script does to the table it got stays in that copy.
load_data == cache

\* The cached table after a script run that left its own table as written.
CachedByReference(cached, written) == written
Cached(cached, written) == cached

\* df.columns[df.columns.str.startswith("ghi_")]
ghi_cols(table) == {c \in table.cols : c = "ghi"}

\* (df['lat'] < -65) | ((df['lat'] > 60) & (df['lon'].between(-60, -20)))
mask(row) ==
    \/ row.lat < -65
    \/ (row.lat > 60 /\ row.lon >= -60 /\ row.lon <= -20)

\* df.loc[mask, ghi_cols] *= 0.5
HalveMaskedGhi(table) ==
    LET cols == ghi_cols(table)
    IN  [table EXCEPT !.rows =
            [i \in DOMAIN table.rows |->
                IF mask(table.rows[i])
                THEN [c \in table.cols |->
                        IF c \in cols
                        THEN [k \in DOMAIN table.rows[i][c] |-> table.rows[i][c][k] \div 2]
                        ELSE table.rows[i][c]]
                ELSE table.rows[i]]]

\* df.get(f"tavg_{month}", (tmin + tmax) / 2), per row; row.get(...) alike.
get_tavg(table, row, month) ==
    IF HasCol(table, Col("tavg", month))
    THEN Cell(row, Col("tavg", month))
    ELSE (Cell(row, Col("tmin", month)) + Cell(row, Col("tmax", month))) \div 2

(***************************************************************************)
(* The formulas the pages share, on one grid point or one month.           *)
(***************************************************************************)
pool_depth == 15            \* 1.5 m, in decimetres
night_hours == 12
collector_efficiency == 7   \* 0.7, in tenths
NetSavingFloor == 1         \* 0.001 kWh, in Wh

\* np.pi * (helideck_diameter / 2) ** 2 * collector_ratio, in 0.01 m2; the
\* diameter in tenths of a metre, the ratio in percent.
collector_area(helideck_diameter, collector_ratio) ==
    (((31416 * helideck_diameter * helideck_diameter) \div 40000) * collector_ratio) \div 100

T_day(tavg, tmax) == (tavg + tmax) \div 2
T_night(tavg, tmin) == (tavg + tmin) \div 2
wind_day(wind, shielding_factor) == (wind * shielding_factor) \div 100
wind_night(wind, shielding_factor) == (8 * wind * shielding_factor) \div 1000
rh_day(rh) == rh
rh_night(rh) == (11 * rh) \div 10

\* ghi * helideck_area * collector_efficiency
helideck_gain(ghi, helideck_area) ==
    (((ghi * helideck_area) \div 10) * collector_efficiency) \div 100

\* ghi * pool_area * 0.7
pool_solar_gain(ghi, pool_area) == (ghi * pool_area * 7) \div 10

\* Main page: np.clip(total_loss - pool_solar_gain, 0, None)
MainNetPoolHeatingUnclipped(total_loss, solar) == total_loss - solar
MainNetPoolHeating(total_loss, solar) == Max(total_loss - solar, 0)

\* Main page: np.minimum(helideck_gain, net_pool_heating), then
\* np.maximum(net_saving, 0.001)
MainNetSaving(gain, heating) == Max(Min(gain, heating), NetSavingFloor)

\* Cost-saving page: max(total_loss - pool_solar_gain, 0)
CostNetPoolHeating(total_loss, solar) == Max(total_loss - solar, 0)

\* Cost-saving page: min(helideck_gain, net_pool_heating)
CostNetSavingFloored(gain, heating) == Max(Min(gain, heating), NetSavingFloor)
CostNetSavingGainOnly(gain, heating) == gain
CostNetSaving(gain, heating) == Min(gain, heating)

\* The sidebar values a script run reads.
DefaultParams ==
    [ helideck_diameter |-> 125, collector_ratio |-> 60, pool_temp |-> 28,
      pool_area |-> 50, cover_used |-> TRUE, shielding_factor |-> 40,
      cop |-> 30, usd_per_liter |-> 120 ]

\* loss = compute_heat_losses(pool_temp, pool_area, pool_depth, T_day, ...)
\* for the climate values rec of one grid point and month.
Losses(rec, p) ==
    compute_heat_losses(p.pool_temp, p.pool_area, pool_depth,
                        T_day(rec.tavg, rec.tmax), T_night(rec.tavg, rec.tmin),
                        wind_day(rec.wind, p.shielding_factor),
                        wind_night(rec.wind, p.shielding_factor),
                        rh_day(rec.rh), rh_night(rec.rh),
                        night_hours, p.cover_used)

\* Main page, lines 146-154, at one grid point, from the result loss of
\* compute_heat_losses.
MainPointFrom(loss, rec, p) ==
        IF loss.error # "none"
        THEN [error |-> loss.error, rh_day |-> rh_day(rec.rh), rh_night |-> rh_night(rec.rh)]
        ELSE
          LET total_loss  == loss.Q_day + loss.Q_night
              area        == collector_area(p.helideck_diameter, p.collector_ratio)
              gain        == helideck_gain(rec.ghi, area)
              solar       == pool_solar_gain(rec.ghi, p.pool_area)
              heating     == MainNetPoolHeating(total_loss, solar)
          IN  [ error            |-> "none",
                rh_day           |-> rh_day(rec.rh),
                rh_night         |-> rh_night(rec.rh),
                ghi              |-> rec.ghi,
                total_loss       |-> total_loss,
                helideck_gain    |-> gain,
                pool_solar_gain  |-> solar,
                net_pool_heating |-> heating,
                net_saving       |-> MainNetSaving(gain, heating) ]

\* Main page, lines 136-154, at one grid point.
MainPoint(rec, p) == MainPointFrom(Losses(rec, p), rec, p)

\* electrical_saving = net_saving * days / cop
electrical_saving(net_saving, days, cop) == (net_saving * days * 10) \div cop

\* The value shown as "Solar collector electric savings (kWh)":
\* round(electrical_saving * days, 1)
ElectricSavingsShown(electrical, days) == Round1(electrical * days)

\* Cost-saving page, lines 180-207: the summary row of one month, from the
\* result loss of compute_heat_losses.  Shown values are in tenths (kWh,
\* litres, USD).
CostMonthFrom(loss, rec, p, month) ==
        IF loss.error # "none"
        THEN [error |-> loss.error, rh_day |-> rh_day(rec.rh), rh_night |-> rh_night(rec.rh)]
        ELSE
          LET total_loss  == loss.Q_day + loss.Q_night
              days        == days_in_month(month)
              area        == collector_area(p.helideck_diameter, p.collector_ratio)
              gain        == helideck_gain(rec.ghi, area)
              solar       == pool_solar_gain(rec.ghi, p.pool_area)
              heating     == CostNetPoolHeating(total_loss, solar)
              net_saving  == CostNetSaving(gain, heating)
              electrical  == electrical_saving(net_saving, days, p.cop)
              diesel_kg   == (electrical * 2) \div 10
              el_required == (heating * 10) \div p.cop
              diesel_l    == (diesel_kg * 100) \div 84
          IN  [ error            |-> "none",
                rh_day           |-> rh_day(rec.rh),
                rh_night         |-> rh_night(rec.rh),
                ghi              |-> rec.ghi,
                total_loss       |-> total_loss,
                helideck_gain    |-> gain,
                pool_solar_gain  |-> solar,
                net_pool_heating |-> heating,
                net_saving       |-> net_saving,
                row |->
                  [ Month            |-> month,
                    HeatLoss         |-> Round1(total_loss * days),
                    PoolDirectSolar  |-> Round1(solar * days),
                    NetHeatReq       |-> Round1(heating * days),
                    ElectricHeatReq  |-> Round1(el_required * days),
                    ThermalSavings   |-> Round1(net_saving * days),
                    ElectricSavings  |-> ElectricSavingsShown(electrical, days),
                    DieselSaved      |-> Round1(diesel_l),
                    USDSaved         |-> Round1((diesel_l * p.usd_per_liter) \div 100) ] ]

\* Cost-saving page, lines 164-207: one month of the loop, from the climate
\* values rec of the nearest grid point.
CostMonth(rec, p, month) == CostMonthFrom(Losses(rec, p), rec, p, month)

(***************************************************************************)
(* A script run of a page.  Each run starts from its own copy of the       *)
(* cached table; df is that copy as the run leaves it.                     *)
(***************************************************************************)
\* Months picked in the month selectors of the three map pages.
PageMonths == {months_ordered[1], months_ordered[4], months_ordered[7]}

\* The climate values of one row for one month, as the pages read them.
RowValues(table, row, month) ==
    [ tmin |-> Cell(row, Col("tmin", month)),
      tmax |-> Cell(row, Col("tmax", month)),
      tavg |-> get_tavg(table, row, month),
      ghi  |-> Cell(row, Col("ghi", month)),
      wind |-> Cell(row, Col("ws10m", month)),
      rh   |-> Cell(row, Col("rh", month)) ]

AnyError(points) == \E i \in DOMAIN points : points[i].error # "none"
FirstError(points) ==
    points[CHOOSE i \in DOMAIN points :
              /\ points[i].error # "none"
              /\ \A j \in DOMAIN points : points[j].error # "none" => i <= j].error

Field(points, name) == [i \in DOMAIN points |-> points[i][name]]

\* Main page (the whole script).  df.get("tavg_<month>", <array>).values
\* has no .values when the column is missing and the default array comes back.
MainPageView(table, month, p) ==
    IF ~HasCol(table, Col("tavg", month))
    THEN [page |-> "main", month |-> month, error |-> "AttributeError"]
    ELSE
      LET points == [i \in DOMAIN table.rows |->
                        MainPoint(RowValues(table, table.rows[i], month), p)]
      IN  IF AnyError(points)
          THEN [page |-> "main", month |-> month, error |-> FirstError(points)]
          ELSE [ page  |-> "main", month |-> month, error |-> "none",
                 maps  |-> [ net_saving       |-> Field(points, "net_saving"),
                             helideck_gain    |-> Field(points, "helideck_gain"),
                             net_pool_heating |-> Field(points, "net_pool_heating"),
                             pool_solar_gain  |-> Field(points, "pool_solar_gain"),
                             ghi              |-> Field(points, "ghi"),
                             total_loss       |-> Field(points, "total_loss") ] ]

MainPage ==
    \E month \in PageMonths, cover_used \in BOOLEAN :
        LET table == HalveMaskedGhi(load_data)
        IN  /\ df' = table
            /\ view' = MainPageView(table, month, [DefaultParams EXCEPT !.cover_used = cover_used])
            /\ cache' = Cached(cache, table)
            /\ UNCHANGED <<coords_by_month, clicks, calc>>

\* Heat-loss-components page (the whole script); the polar mask is applied
\* at lines 103-105 and again at lines 107-110.
HeatLossPageView(table, month, p) ==
    IF ~HasCol(table, Col("tavg", month))
    THEN [page |-> "heatloss", month |-> month, error |-> "AttributeError"]
    ELSE
      LET losses == [i \in DOMAIN table.rows |->
                        Losses(RowValues(table, table.rows[i], month), p)]
      IN  IF AnyError(losses)
          THEN [page |-> "heatloss", month |-> month, error |-> FirstError(losses)]
          ELSE [ page |-> "heatloss", month |-> month, error |-> "none",
                 maps |-> [ rad_loss   |-> [i \in DOMAIN losses |->
                                              losses[i].rad_day + losses[i].rad_night],
                            evap_loss  |-> [i \in DOMAIN losses |->
                                              losses[i].evap_day + losses[i].evap_night],
                            conv_loss  |-> [i \in DOMAIN losses |->
                                              losses[i].conv_day + losses[i].conv_night],
                            total_loss |-> [i \in DOMAIN losses |->
                                              losses[i].Q_day + losses[i].Q_night] ] ]

HeatLossPage ==
    \E month \in PageMonths, cover_used \in BOOLEAN :
        LET table == HalveMaskedGhi(HalveMaskedGhi(load_data))
        IN  /\ df' = table
            /\ view' = HeatLossPageView(table, month,
                                        [DefaultParams EXCEPT !.cover_used = cover_used])
            /\ cache' = Cached(cache, table)
            /\ UNCHANGED <<coords_by_month, clicks, calc>>

\* Climate Data Viewer (the whole script).
available_metrics == Metrics
available_months(table) == {month \in Months : HasCol(table, Col("ghi", month))}

ClimateViewer ==
    \/ /\ df' = load_data
       /\ view' = [page |-> "viewer", view_mode |-> "Show Grid Locations", error |-> "none"]
       /\ cache' = Cached(cache, load_data)
       /\ UNCHANGED <<coords_by_month, clicks, calc>>
    \/ \E month \in available_months(load_data) \cap PageMonths, metric \in available_metrics :
         LET table  == HalveMaskedGhi(load_data)
             column == Col(metric, month)
         IN  /\ df' = table
             /\ view' = IF HasCol(table, column)
                        THEN [ page |-> "viewer", view_mode |-> "Climate Map",
                               error |-> "none", column |-> column,
                               data |-> [i \in DOMAIN table.rows |-> Cell(table.rows[i], column)] ]
                        ELSE [ page |-> "viewer", view_mode |-> "Climate Map",
                               error |-> "KeyError", column |-> column ]
             /\ cache' = Cached(cache, table)
             /\ UNCHANGED <<coords_by_month, clicks, calc>>

(***************************************************************************)
(* Cost-saving page.  coords_by_month maps month[:3].lower() to the        *)
(* (lat, lng) last clicked for that month.                                 *)
(***************************************************************************)
\* Map positions a user clicks: near the third and near the fourth grid point.
ClickPoints == { <<26, -28>>, <<54, 4>> }
NoClick == << >>

\* A click near the second grid point, in the Greenland band.
PolarClick == <<64, -41>>

\* Positions clicked: with partial selections the two of ClickPoints, with
\* all twelve months selected also the polar one.
ClickPointsOf(partial) == IF partial THEN ClickPoints ELSE ClickPoints \cup {PolarClick}

\* d[k] = v on a dict
PutOnly(d, k, v) == [x \in {k} |-> v]
Put(d, k, v) == [x \in DOMAIN d \cup {k} |-> IF x = k THEN v ELSE d[x]]

\* f"checked {month}" if has_coords else f"blank {month}" (the two marks are
\* the check-mark and the white-square emoji).
Label(month, coords) ==
    <<IF Short(month) \in DOMAIN coords THEN "checked" ELSE "blank", " ">> \o month

month_display_labels(coords) ==
    [i \in 1..Len(months_ordered) |-> Label(months_ordered[i], coords)]

\* month_label_to_real[label], the dict built from the labels; a later
\* month's entry replaces an earlier one.
month_label_to_real(labels, label) ==
    months_ordered[CHOOSE i \in 1..Len(labels) :
                      /\ labels[i] = label
                      /\ \A j \in 1..Len(labels) : labels[j] = label => j <= i]

\* remaining_months = [m for m in months_ordered
\*                     if m[:3].lower() not in st.session_state.coords_by_month]
remaining_months(coords) ==
    SelectSeq(months_ordered, LAMBDA month : Short(month) \notin DOMAIN coords)

\* default_label = f"blank {remaining_months[0]}" if remaining_months
\*                 else month_display_labels[0]
default_labelFirstMonth(coords) == <<"blank", " ">> \o months_ordered[1]
default_label(coords) ==
    IF remaining_months(coords) # << >>
    THEN <<"blank", " ">> \o remaining_months(coords)[1]
    ELSE month_display_labels(coords)[1]

\* selected_months = [month_label_to_real[label] for label in selected_labels]
selected_months(coords, selected_labels) ==
    LET labels == month_display_labels(coords)
    IN  [i \in 1..Len(selected_labels) |-> month_label_to_real(labels, selected_labels[i])]

\* for m in selected_months: coords_by_month[m[:3].lower()] = latlng
RECURSIVE AssignSelected(_, _, _)
AssignSelected(coords, months, latlng) ==
    IF months = << >> THEN coords
    ELSE AssignSelected(Put(coords, Short(Head(months)), latlng), Tail(months), latlng)

\* The options with indices lo..hi, as the multiselect returns them.
Selection(labels, lo, hi) == [i \in 1..(hi - lo + 1) |-> labels[lo + i - 1]]

\* Selections a user makes: none or all twelve; with partial, also any single
\* month and the first MaxSel months.
SelectionsOf(labels, partial) ==
    {<< >>, Selection(labels, 1, Len(labels))}
      \cup (IF partial
            THEN {Selection(labels, i, i) : i \in 1..Len(labels)}
                   \cup {Selection(labels, 1, MaxSel)}
            ELSE {})

Selections(coords, partial) == SelectionsOf(month_display_labels(coords), partial)

\* Lines 139-144: a click with a non-empty selection assigns and reruns.
ClickCondition(months, last_clicked) == months # << >> /\ last_clicked # NoClick

CostPageClick(partial) ==
    /\ clicks < MaxClicks
    /\ \E selected_labels \in Selections(coords_by_month, partial),
          latlng \in ClickPointsOf(partial) :
         LET months == selected_months(coords_by_month, selected_labels)
         IN  /\ ClickCondition(months, latlng)
             /\ coords_by_month' = AssignSelected(coords_by_month, months, latlng)
             /\ view' = [ page |-> "cost", selected_months |-> months,
                          last_clicked |-> latlng, rerun |-> TRUE, error |-> "none",
                          shown |-> FALSE,
                          default_label |-> default_label(coords_by_month) ]
    /\ clicks' = clicks + 1
    /\ df' = load_data
    /\ cache' = Cached(cache, load_data)
    /\ UNCHANGED calc

\* np.sqrt((df["lat"] - lat_sel)**2 + (df["lon"] - lon_sel)**2), per row; the
\* squared distance is kept, which has the same idxmin.
DistColumn(table, latlng) ==
    [i \in DOMAIN table.rows |->
        (table.rows[i].lat - latlng[1]) * (table.rows[i].lat - latlng[1])
          + (table.rows[i].lon - latlng[2]) * (table.rows[i].lon - latlng[2])]

\* df["dist"] = ...: the table with the column added or replaced.
WithDist(table, latlng) ==
    LET dist == DistColumn(table, latlng)
    IN  [ cols |-> table.cols \cup {"dist"},
          rows |-> [i \in DOMAIN table.rows |->
                      [c \in table.cols \cup {"dist"} |->
                         IF c = "dist" THEN dist[i] ELSE table.rows[i][c]]] ]

\* df["dist"].idxmin(): the first row with the least distance.
idxmin(dist) ==
    CHOOSE i \in DOMAIN dist :
        /\ \A j \in DOMAIN dist : dist[i] <= dist[j]
        /\ \A j \in DOMAIN dist : dist[j] = dist[i] => i <= j

RECURSIVE SumField(_, _, _)
SumField(rows, name, n) == IF n = 0 THEN 0 ELSE SumField(rows, name, n - 1) + rows[n][name]

SummaryColumns ==
    { "HeatLoss", "PoolDirectSolar", "NetHeatReq", "ElectricHeatReq",
      "ThermalSavings", "ElectricSavings", "DieselSaved", "USDSaved" }

\* df_result[[...]].sum(), each sum rounded to one decimal for the Total row.
TotalRow(rows) ==
    [c \in SummaryColumns \cup {"Month"} |->
        IF c = "Month" THEN <<"T","o","t","a","l">>
        ELSE Round1(SumField(rows, c, Len(rows)) * 100)]

\* Lines 150-227, entered when len(coords_by_month) == 12.  The table keeps
\* the dist column of the last month looked up.
CostSummaryFrom(detail, last_table) ==
    IF AnyError(detail)
    THEN [error |-> FirstError(detail), table |-> last_table]
    ELSE [ error     |-> "none",
           table     |-> last_table,
           detail    |-> detail,
           df_result |-> Append(Field(detail, "row"), TotalRow(Field(detail, "row"))) ]

CostSummary(table, coords, p) ==
    IF \E i \in 1..Len(months_ordered) : short_months[i] \notin DOMAIN coords
    THEN [error |-> "KeyError", table |-> table]
    ELSE CostSummaryFrom(
           [i \in 1..Len(months_ordered) |->
              CostMonth(RowValues(table,
                                  table.rows[idxmin(DistColumn(table, coords[short_months[i]]))],
                                  months_ordered[i]),
                        p, months_ordered[i])],
           WithDist(table, coords[short_months[Len(months_ordered)]]))

\* What a run that processes no click shows: the summary when
\* len(coords_by_month) == 12 (r is then the outcome of lines 150-227).
CostShowView(r, months, last_clicked, all_assigned, default) ==
    IF all_assigned /\ r.error = "none"
    THEN [ page |-> "cost", selected_months |-> months, last_clicked |-> last_clicked,
           rerun |-> FALSE, error |-> "none", shown |-> TRUE, default_label |-> default,
           detail |-> r.detail, df_result |-> r.df_result ]
    ELSE [ page |-> "cost", selected_months |-> months, last_clicked |-> last_clicked,
           rerun |-> FALSE, error |-> IF all_assigned THEN r.error ELSE "none",
           shown |-> FALSE, default_label |-> default ]

\* A run in which no click is processed.
CostPageShow ==
    \E selected_labels \in Selections(coords_by_month, FALSE),
       last_clicked \in ClickPoints \cup {NoClick}, cover_used \in BOOLEAN :
        LET months == selected_months(coords_by_month, selected_labels)
            r      == IF Cardinality(DOMAIN coords_by_month) = 12
                      THEN CostSummary(load_data, coords_by_month,
                                       [DefaultParams EXCEPT !.cover_used = cover_used])
                      ELSE [error |-> "none", table |-> load_data]
        IN  /\ ~ClickCondition(months, last_clicked)
            /\ df' = r.table
            /\ view' = CostShowView(r, months, last_clicked,
                                    Cardinality(DOMAIN coords_by_month) = 12,
                                    default_label(coords_by_month))
            /\ cache' = Cached(cache, r.table)
            /\ UNCHANGED <<coords_by_month, clicks, calc>>

(***************************************************************************)
(* Spec: the four pages over the loaded table; on the Cost-saving page a   *)
(* click assigns all twelve months at once.                                *)
(* SpecAssign: the Cost-saving page alone, with partial month selections.  *)
(***************************************************************************)
Init ==
    /\ \E hasTavg \in BOOLEAN : cache = read_csv(hasTavg)
    /\ df = cache
    /\ coords_by_month = << >>
    /\ clicks = 0
    /\ view = [page |-> "none"]
    /\ calc = [stage |-> "off"]

CostClickAll == CostPageClick(FALSE)

Next == MainPage \/ HeatLossPage \/ ClimateViewer \/ CostClickAll \/ CostPageShow

Spec == Init /\ [][Next]_vars

AssignInit ==
    /\ cache = read_csv(TRUE)
    /\ df = cache
    /\ coords_by_month = << >>
    /\ clicks = 0
    /\ view = [page |-> "none"]
    /\ calc = [stage |-> "off"]

CostClick == CostPageClick(TRUE)

AssignNext == CostClick \/ CostPageShow

SpecAssign == AssignInit /\ [][AssignNext]_vars

(***************************************************************************)
(* SpecCalc: the formulas evaluated once on scalar inputs.  Init draws the *)
(* climate values of one grid point and the sidebar values; each action    *)
(* applies one page's formulas, or calls compute_heat_losses directly.     *)
(***************************************************************************)
\* <<tmin, tavg, tmax>> in milli-degrees C
CalcTemps ==
    { <<-10000, -6000, -2000>>, <<14000, 22000, 28000>>,
      <<27000, 28000, 29000>>, <<30000, 34000, 38000>> }
CalcGhi == {0, 2000, 7000}
CalcWind == {0, 5000}
CalcRh == {0, 6000, 9500, 10000}
CalcPoolTemp == {20, 28, 35}
CalcPoolArea == {10, 50}
CalcCollector == { <<100, 10>>, <<125, 60>>, <<250, 100>> }
CalcCop == {10, 30, 60}
CalcMonths == {months_ordered[1], months_ordered[2], months_ordered[4]}

\* Arguments of a direct call: in the domain, and out of it one way at a time.
CallBase == [area |-> 50, depth |-> 15, night_hours |-> 12, rh_day |-> 6000, rh_night |-> 6600]
CallArgs ==
    { CallBase,
      [CallBase EXCEPT !.area = 0], [CallBase EXCEPT !.area = -5],
      [CallBase EXCEPT !.depth = 0],
      [CallBase EXCEPT !.night_hours = 0], [CallBase EXCEPT !.night_hours = 24],
      [CallBase EXCEPT !.night_hours = 8],
      [CallBase EXCEPT !.rh_day = -1], [CallBase EXCEPT !.rh_day = 10001],
      [CallBase EXCEPT !.rh_night = 10450],
      [CallBase EXCEPT !.rh_day = 10000, !.rh_night = 10000],
      [CallBase EXCEPT !.rh_day = 0, !.rh_night = 0] }

NoTable == [cols |-> {}, rows |-> << >>]

CalcInit ==
    /\ cache = NoTable
    /\ df = NoTable
    /\ coords_by_month = << >>
    /\ clicks = 0
    /\ view = [page |-> "none"]
    /\ \E t \in CalcTemps, g \in CalcGhi, w \in CalcWind, h \in CalcRh,
          pt \in CalcPoolTemp, pa \in CalcPoolArea, c \in CalcCollector,
          cover \in BOOLEAN :
         calc = [ stage |-> "input",
                  rec   |-> [tmin |-> t[1], tavg |-> t[2], tmax |-> t[3],
                             ghi |-> g, wind |-> w, rh |-> h],
                  p     |-> [DefaultParams EXCEPT !.pool_temp = pt, !.pool_area = pa,
                                                  !.helideck_diameter = c[1],
                                                  !.collector_ratio = c[2],
                                                  !.cover_used = cover] ]

EvalMain ==
    /\ calc.stage = "input"
    /\ calc' = [stage |-> "main", rec |-> calc.rec, p |-> calc.p,
                out |-> MainPoint(calc.rec, calc.p)]
    /\ UNCHANGED <<cache, df, coords_by_month, clicks, view>>

EvalCost ==
    /\ calc.stage = "input"
    /\ \E month \in CalcMonths, cop \in CalcCop :
         LET p == [calc.p EXCEPT !.cop = cop]
         IN  calc' = [stage |-> "cost", rec |-> calc.rec, p |-> p, month |-> month,
                      out |-> CostMonth(calc.rec, p, month)]
    /\ UNCHANGED <<cache, df, coords_by_month, clicks, view>>

\* compute_heat_losses called with and without the night cover on the same
\* arguments.
CallLossesWith(a, cover_used) ==
    compute_heat_losses(calc.p.pool_temp, a.area, a.depth,
                        T_day(calc.rec.tavg, calc.rec.tmax),
                        T_night(calc.rec.tavg, calc.rec.tmin),
                        wind_day(calc.rec.wind, calc.p.shielding_factor),
                        wind_night(calc.rec.wind, calc.p.shielding_factor),
                        a.rh_day, a.rh_night, a.night_hours, cover_used)

EvalLosses ==
    /\ calc.stage = "input"
    /\ \E a \in CallArgs :
         calc' = [stage |-> "losses", rec |-> calc.rec, p |-> calc.p, args |-> a,
                  covered   |-> CallLossesWith(a, TRUE),
                  uncovered |-> CallLossesWith(a, FALSE)]
    /\ UNCHANGED <<cache, df, coords_by_month, clicks, view>>

CalcNext == EvalMain \/ EvalCost \/ EvalLosses

SpecCalc == CalcInit /\ [][CalcNext]_vars

(***************************************************************************)
(* Properties of the formulas (checked under SpecCalc).                    *)
(***************************************************************************)
CalcPageDone == calc.stage \in {"main", "cost"} /\ calc.out.error = "none"
CalcLossesDone ==
    calc.stage = "losses" /\ calc.covered.error = "none" /\ calc.uncovered.error = "none"

\* C1, as stated: on the Main page and on the Cost-saving page the final
\* net_saving is at most the collector gain and at most the net requirement.
C1_NetSavingBoundedOnEveryPage ==
    CalcPageDone =>
        /\ calc.out.net_saving <= calc.out.helideck_gain
        /\ calc.out.net_saving <= calc.out.net_pool_heating

\* C1, amended: on the Cost-saving page net_saving is at most the collector
\* gain and at most the net requirement for all inputs; on the Main page the
\* final net_saving is at most both whenever both are at least the floor
\* 0.001, and is the floor 0.001 otherwise (so it exceeds a requirement of 0).
C1_NetSavingBoundedUpToFloor ==
    CalcPageDone =>
        LET o == calc.out
        IN  /\ calc.stage = "cost" =>
                 /\ o.net_saving <= o.helideck_gain
                 /\ o.net_saving <= o.net_pool_heating
            /\ (calc.stage = "main" /\ Min(o.helideck_gain, o.net_pool_heating) >= NetSavingFloor) =>
                 /\ o.net_saving <= o.helideck_gain
                 /\ o.net_saving <= o.net_pool_heating
            /\ (calc.stage = "main" /\ Min(o.helideck_gain, o.net_pool_heating) < NetSavingFloor) =>
                 o.net_saving = NetSavingFloor

C1_Witness ==
    /\ CalcPageDone
    /\ calc.stage = "main"
    /\ calc.out.net_pool_heating = 0
    /\ calc.out.helideck_gain > NetSavingFloor
    /\ calc.out.net_saving = NetSavingFloor

\* C2: the net requirement is never negative on either page, and is exactly
\* 0 when the pool's direct solar gain exceeds the total loss.
C2_NetRequirementNonNegative ==
    CalcPageDone =>
        /\ calc.out.net_pool_heating >= 0
        /\ calc.out.pool_solar_gain > calc.out.total_loss => calc.out.net_pool_heating = 0

C2_Witness ==
    /\ CalcPageDone
    /\ calc.stage = "main"
    /\ calc.out.total_loss > 0
    /\ calc.out.pool_solar_gain > calc.out.total_loss
    /\ calc.out.net_pool_heating = 0

\* C4, as stated: in a summary row the electric savings times COP equal the
\* thermal savings, up to the rounding of the two shown values.
C4_ElectricTimesCopIsThermal ==
    (calc.stage = "cost" /\ calc.out.error = "none") =>
        Abs(calc.out.row.ElectricSavings * calc.p.cop - calc.out.row.ThermalSavings * 10)
            <= calc.p.cop + 10

\* C5, as stated: a dataset humidity within 0..100 % reaches
\* compute_heat_losses as day and night humidities within 0..100 %.
C5_HumidityPassedInRange ==
    (calc.stage \in {"main", "cost"} /\ calc.rec.rh >= 0 /\ calc.rec.rh <= 10000) =>
        /\ calc.out.rh_day >= 0 /\ calc.out.rh_day <= 10000
        /\ calc.out.rh_night >= 0 /\ calc.out.rh_night <= 10000

PoolWarmerThanNightAir == calc.p.pool_temp * 1000 > T_night(calc.rec.tavg, calc.rec.tmin)

DayOutputsIdentical ==
    /\ calc.covered.rad_day = calc.uncovered.rad_day
    /\ calc.covered.evap_day = calc.uncovered.evap_day
    /\ calc.covered.conv_day = calc.uncovered.conv_day
    /\ calc.covered.Q_day = calc.uncovered.Q_day

OutOfDomain(a) ==
    \/ a.area <= 0
    \/ a.depth <= 0
    \/ a.rh_day < 0 \/ a.rh_day > 10000
    \/ a.rh_night < 0 \/ a.rh_night > 10000
    \/ a.night_hours <= 0 \/ a.night_hours >= 24

\* C8: compute_heat_losses signals InvalidParameter and returns no loss
\* values when the area or the depth is not positive, a humidity is outside
\* 0..100 %, or the night hours leave no day or no night within 24 hours;
\* on every other input it returns the losses without error.
C8_InvalidParameterExactlyOutOfDomain ==
    calc.stage = "losses" =>
        \A r \in {calc.covered, calc.uncovered} :
            /\ OutOfDomain(calc.args) => (r.error = "InvalidParameter" /\ DOMAIN r = {"error"})
            /\ ~OutOfDomain(calc.args) =>
                 (r.error = "none" /\ {"Q_day", "Q_night", "rad_day", "rad_night", "evap_day",
                                       "evap_night", "conv_day", "conv_night"} \subseteq DOMAIN r)

C8_Witness ==
    /\ calc.stage = "losses"
    /\ calc.args.area = 0
    /\ calc.covered.error = "InvalidParameter"

(***************************************************************************)
(* Properties of the pages over the table (checked under Spec).            *)
(***************************************************************************)
SummaryShown == view.page = "cost" /\ view.shown

SavingsColumns == {"ThermalSavings", "ElectricSavings", "DieselSaved", "USDSaved"}

\* The sum of column c over the first n months that have a net requirement.
RECURSIVE SumOfRequiringMonths(_, _, _)
SumOfRequiringMonths(detail, c, n) ==
    IF n = 0 THEN 0
    ELSE SumOfRequiringMonths(detail, c, n - 1)
           + (IF detail[n].net_pool_heating > 0 THEN detail[n].row[c] ELSE 0)

\* C3: the net_saving behind every summary row is min(collector gain, net
\* requirement) without the 0.001 floor, so a month with no net requirement
\* has 0 in each savings column and adds nothing to the Total row; the
\* floored value appears only in the Main page's map input.
C3_FloorOutsideEnergyAccounting ==
    /\ SummaryShown =>
          /\ \A i \in DOMAIN view.detail :
                /\ view.detail[i].net_saving
                     = Min(view.detail[i].helideck_gain, view.detail[i].net_pool_heating)
                /\ view.df_result[i] = view.detail[i].row
                /\ view.detail[i].net_pool_heating = 0 =>
                     \A c \in SavingsColumns : view.detail[i].row[c] = 0
          /\ \A c \in SavingsColumns :
                view.df_result[Len(view.df_result)][c]
                  = SumOfRequiringMonths(view.detail, c, Len(view.detail))
    /\ (view.page = "main" /\ view.error = "none") =>
          \A i \in DOMAIN view.maps.net_saving :
              view.maps.net_saving[i]
                = Max(Min(view.maps.helideck_gain[i], view.maps.net_pool_heating[i]),
                      NetSavingFloor)

C3_Witness ==
    /\ SummaryShown
    /\ \E i \in DOMAIN view.detail :
          /\ view.detail[i].net_pool_heating = 0
          /\ view.detail[i].helideck_gain > 0
          /\ view.df_result[i].ElectricSavings = 0
    /\ \E i \in DOMAIN view.detail : view.df_result[i].ThermalSavings > 0
    /\ view.df_result[Len(view.df_result)].ThermalSavings > 0

\* C6, as stated: the table a page run got from load_data() is, when the
\* run ends, still the table as loaded.
C6_LoadedTableNeverWritten == df = cache

\* C6, amended: the cached dataset is never changed and every load_data()
\* returns the values as loaded, but a page run writes to the copy it got:
\* the ghi_* cells of the polar-band rows (Main page, Climate Data Viewer,
\* Heat-loss-components page) and an added column dist (Cost-saving page);
\* every other cell and column of the copy stays as loaded.
C6_CachedTableKeepsLoadedValues ==
    /\ cache \in {read_csv(TRUE), read_csv(FALSE)}
    /\ load_data = cache
    /\ df.cols \ {"dist"} = cache.cols
    /\ DOMAIN df.rows = DOMAIN cache.rows
    /\ \A i \in DOMAIN cache.rows, c \in cache.cols :
          (c \notin ghi_cols(cache) \/ ~mask(cache.rows[i])) => df.rows[i][c] = cache.rows[i][c]

C6_Witness ==
    /\ view.page = "main"
    /\ cache = read_csv(TRUE)
    /\ mask(cache.rows[1])
    /\ df.rows[1].ghi # cache.rows[1].ghi
    /\ df.rows[3] = cache.rows[3]

(***************************************************************************)
(* Properties of the Cost-saving page's assignments (checked under         *)
(* SpecAssign).                                                            *)
(***************************************************************************)
AllAssigned == \A month \in Months : Short(month) \in DOMAIN coords_by_month

\* C9: the keys of coords_by_month are short month names, so it has 12
\* entries exactly when every month has a location; the summary is shown
\* only then, and no lookup coords_by_month[short] fails in the results loop.
C9_SummaryOnlyWhenAllAssigned ==
    /\ DOMAIN coords_by_month \subseteq {short_months[i] : i \in DOMAIN short_months}
    /\ Cardinality(DOMAIN coords_by_month) = 12 <=> AllAssigned
    /\ view.page = "cost" =>
          /\ view.shown => AllAssigned
          /\ (~view.rerun /\ AllAssigned) => view.shown
          /\ view.error # "KeyError"

C9_Witness ==
    /\ SummaryShown
    /\ AllAssigned
    /\ clicks = 2
    /\ coords_by_month[Short(months_ordered[1])] # coords_by_month[Short(months_ordered[12])]

SelectedKeys(months) == {Short(months[i]) : i \in DOMAIN months}

\* C10: a run that processes a click with a non-empty selection gives the
\* clicked position to exactly the selected months and leaves every other
\* month's assignment as it was; a run with an empty selection or without a
\* click leaves coords_by_month unchanged.
C10_ClickAssignsExactlySelected ==
    [][ view'.page = "cost" =>
          IF ClickCondition(view'.selected_months, view'.last_clicked)
          THEN /\ view'.rerun
               /\ DOMAIN coords_by_month'
                    = DOMAIN coords_by_month \cup SelectedKeys(view'.selected_months)
               /\ \A k \in SelectedKeys(view'.selected_months) :
                     coords_by_month'[k] = view'.last_clicked
               /\ \A k \in DOMAIN coords_by_month \ SelectedKeys(view'.selected_months) :
                     coords_by_month'[k] = coords_by_month[k]
          ELSE /\ ~view'.rerun
               /\ coords_by_month' = coords_by_month ]_vars

C10_Witness ==
    /\ view.page = "cost"
    /\ view.rerun
    /\ clicks = 2
    /\ Len(view.selected_months) = 1
    /\ \A k \in SelectedKeys(view.selected_months) : coords_by_month[k] = view.last_clicked
    /\ \E k \in DOMAIN coords_by_month \ SelectedKeys(view.selected_months) :
          coords_by_month[k] # view.last_clicked

Unassigned == {i \in DOMAIN months_ordered : short_months[i] \notin DOMAIN coords_by_month}

\* C11: in every run of the Cost-saving script the default label is the
\* unassigned label of the calendar-earliest month without a location, or
\* the first option when all twelve months have one, and it is one of the
\* options of the multiselect built in that run.
C11_DefaultIsEarliestUnassignedOption ==
    [][ view'.page = "cost" =>
          /\ Unassigned # {} =>
                \E i \in Unassigned :
                    /\ \A j \in Unassigned : i <= j
                    /\ view'.default_label = <<"blank", " ">> \o months_ordered[i]
          /\ Unassigned = {} =>
                view'.default_label = month_display_labels(coords_by_month)[1]
          /\ \E i \in DOMAIN months_ordered :
                month_display_labels(coords_by_month)[i] = view'.default_label ]_vars

C11_Witness ==
    /\ view.page = "cost"
    /\ ~view.rerun
    /\ DOMAIN coords_by_month = {short_months[1], short_months[2]}
    /\ view.default_label = <<"blank", " ">> \o months_ordered[3]

(***************************************************************************)
(* The polar irradiance reduction and the tavg fallback on the pages       *)
(* (checked under Spec).                                                   *)
(***************************************************************************)
\* Half the dataset's irradiance in the polar bands, the dataset's elsewhere.
ReducedGhi(i, month) ==
    IF mask(cache.rows[i])
    THEN Cell(cache.rows[i], Col("ghi", month)) \div 2
    ELSE Cell(cache.rows[i], Col("ghi", month))

NearestRow(latlng) == idxmin(DistColumn(cache, latlng))

\* C12, as stated: after a run of the Main page, the Heat-loss-components
\* page, the Climate Data Viewer's map or the Cost-saving page, every ghi_*
\* value of the run's table is half the dataset's in the polar bands and the
\* dataset's elsewhere, and so is the irradiance behind the collector gain
\* on the Main page and in each month of the Cost-saving summary.
C12_PolarGhiHalvedOnEveryPage ==
    /\ (\/ view.page \in {"main", "heatloss", "cost"}
        \/ (view.page = "viewer" /\ view.view_mode = "Climate Map")) =>
          \A i \in DOMAIN df.rows, month \in Months :
              Cell(df.rows[i], Col("ghi", month)) = ReducedGhi(i, month)
    /\ (view.page = "main" /\ view.error = "none") =>
          \A i \in DOMAIN view.maps.ghi : view.maps.ghi[i] = ReducedGhi(i, view.month)
    /\ (view.page = "cost" /\ view.shown) =>
          \A k \in DOMAIN view.detail :
              view.detail[k].ghi
                = ReducedGhi(NearestRow(coords_by_month[short_months[k]]), months_ordered[k])

\* The sum of the three component maps at grid point i, in W (the maps hold
\* mW), to set against the total map in Wh: equal numbers mean that the kW
\* of the components and the kWh of the total are the same figure.
ComponentMapsSum(i) ==
    DivT(view.maps.rad_loss[i] + view.maps.evap_loss[i] + view.maps.conv_loss[i], 1000)

\* C13, as stated: on the Heat-loss-components page the radiative,
\* evaporative and convective maps add up to the total map at every grid
\* point (to within the rounding of the fixed-point values).
C13_ComponentMapsAddUpToTotal ==
    (view.page = "heatloss" /\ view.error = "none") =>
        \A i \in DOMAIN view.maps.total_loss :
            Abs(ComponentMapsSum(i) - view.maps.total_loss[i]) <= 2

\* The total loss of the month with index k at the grid point nearest to the
\* month's location, with T_avg = (T_min + T_max) / 2.
FallbackTotalLoss(k, cover_used) ==
    LET row  == cache.rows[NearestRow(coords_by_month[short_months[k]])]
        tmin == Cell(row, Col("tmin", months_ordered[k]))
        tmax == Cell(row, Col("tmax", months_ordered[k]))
        rec  == [ tmin |-> tmin, tmax |-> tmax, tavg |-> (tmin + tmax) \div 2,
                  ghi  |-> Cell(row, Col("ghi", months_ordered[k])),
                  wind |-> Cell(row, Col("ws10m", months_ordered[k])),
                  rh   |-> Cell(row, Col("rh", months_ordered[k])) ]
        loss == Losses(rec, [DefaultParams EXCEPT !.cover_used = cover_used])
    IN  loss.Q_day + loss.Q_night

\* C14, as stated: with no tavg_<month> column in the dataset, the Main
\* page, the Heat-loss-components page and the Cost-saving page all go on
\* without error, with T_avg = (T_min + T_max) / 2 behind T_day and T_night.
C14_TavgFallbackOnEveryPage ==
    ~HasCol(cache, Col("tavg", months_ordered[1])) =>
        /\ view.page \in {"main", "heatloss"} => view.error = "none"
        /\ (view.page = "cost" /\ ~view.rerun /\ Cardinality(DOMAIN coords_by_month) = 12) =>
              /\ view.shown
              /\ \A k \in DOMAIN view.detail :
                    \E cover_used \in BOOLEAN :
                        view.detail[k].total_loss = FallbackTotalLoss(k, cover_used)

====
